---- MODULE Spec2Model ----
(***************************************************************************)
(* Model of the data-collection subsystem: the collection task             *)
(* orchestrator and raw-data store of app/services/scrape_service.py, the  *)
(* record de-duplication of app/scrapers/base.py, and the rate limiter and *)
(* paged listing collector of app/scrapers/eastmoney.py.                   *)
(***************************************************************************)
EXTENDS Integers, Sequences, FiniteSets, Bags, TLC

\* ----------------------------------------------------------------- bounds
MaxTasks == 1
MaxKeys == 2

\* ScrapeService instances working on the same database (one per request).
Services == {1, 2}

FundCodes == {"000001", "BADCODE"}
\* enum DataType
AllDataTypes == {"fund_basic", "fund_daily", "fund_holdings", "fund_rating", "other"}

\* The data types tasks are created with.
DataTypes == {"fund_basic"}
DataSources == {"eastmoney", "tiantian"}

\* self.scrapers of ScrapeService.__init__: only EASTMONEY has a scraper.
RegisteredScrapers == {"eastmoney"}

None == "None"

\* EastMoneyScraper.__init__
max_workers == 5
request_interval == 2

\* _get_fund_rank_page(page, page_size=50), and the page size of the one
\* oversized request made when max_pages is None.
DefaultPageSize == 50
OversizedPageSize == 100000

\* max_pages=None of get_all_fund_rank_data.
NoMaxPages == -1

\* One EastMoneyScraper per ScrapeService instance.
Scrapers == {1, 2}

\* What the source may report as totalCount, and the max_pages arguments.
TotalCounts == {0, 50, 51, 237}
MaxPagesArg == 5
MaxPagesArgs == {NoMaxPages} \cup (1..MaxPagesArg)

\* The totals used when two scrapers collect at the same time.
SmallTotalCounts == {0, 51}
SmallMaxPagesArgs == {2}

\* No _save_raw_data call returned in the step.
NoSave == [svc |-> 0, key |-> <<>>, wrote |-> FALSE, value |-> "unset"]

\* No service call returned in the step.
NoRet == [svc |-> 0, op |-> "none"]

\* The rows of a listing response carry at most MaxRows rows.
MaxRows == 2

\* `if len(fund_fields) >= 10` of _get_fund_rank_page.
MinFields == 10

\* A field of a listing row is a string, here the sequence of its parts: a
\* decimal number, the percent sign, or other text. "" is <<>>.
Number == "1.5"
Percent == "%"
Text == "text"

\* The fields a source sends as nav and accum_nav, and as a growth: empty, a
\* number, or (nav) a text that is no number.
NavFields == {<<>>, <<Number>>, <<Text>>}
GrowthFields == {<<>>, <<Number, Percent>>, <<Number>>}

\* The numbers of fields of a row: too few, the minimum, and with yearly_growth.
RowLengths == {3, 10, 11}

\* A row "code,name,short,date,nav,accum_nav,daily,weekly,monthly,quarterly,yearly"
\* cut after its first n fields.
ListingRow(n, nav, growth) ==
    [i \in 1..n |-> IF i <= 4 THEN <<Text>> ELSE IF i <= 6 THEN nav ELSE growth]

ListingRows ==
    {ListingRow(n, nav, growth) :
        n \in RowLengths, nav \in NavFields, growth \in GrowthFields}

\* requests.get raised (timeout, connection error, HTTP error status).
TransportFailure == [ok |-> FALSE, kind |-> "none", rows |-> <<>>, has_total |-> FALSE]

\* What requests.get can give: a failure; a page without `var rankData = {...};`
\* (the source's ErrCode answer); a page with rankData and its datas rows,
\* with or without a totalCount.
Responses ==
    {TransportFailure}
    \cup {[ok |-> TRUE, kind |-> "denied", rows |-> <<>>, has_total |-> FALSE]}
    \cup {[ok |-> TRUE, kind |-> "rank", rows |-> rows, has_total |-> has_total] :
            rows \in UNION {[1..k -> ListingRows] : k \in 0..MaxRows},
            has_total \in BOOLEAN}

\* None as the value of a numeric field, and the float a string converts to.
NoneValue == [is_none |-> TRUE]

\* {"data": [], "total": 0}
FailedPage == [data |-> <<>>, total |-> 0]

\* The longest fund list the source answers with.
MaxFunds == 2

\* The fewest fields of a fund list entry get_all_fund_data accepts.
MinFundFields == 5

\* The versions of a fund's name, type and pinyin the source can list.
Versions == {"v1", "v2"}

\* The most rows the fund_growth table is let grow to.
MaxGrowthRows == 1

\* No _get_fund_rank_page call on its own was made yet.
NoPageRet == [data |-> <<>>, total |-> 0, called |-> FALSE]

\* No request has left yet.
NoRequest == [kind |-> "none", waited |-> FALSE]

\* The locals of update_fund_growth outside a call.
NoGrowthRun == [success_count |-> 0, failed_count |-> 0, total_count |-> 0,
                current_date |-> "none"]

VARIABLES
    scrape_task,       \* table scrape_task: sequence of rows, position = id
    scrape_task_item,  \* table scrape_task_item: per task id, its item rows
    raw_fund_data,     \* table raw_fund_data: the bag of committed rows
    pc,                \* per service: position inside run_scrape_task
    cur_task,          \* per service: local `task` of run_scrape_task
    raw_data_list,     \* per service: records of scraper.run() not yet handled
    success_count,     \* per service: local success_count
    error_count,       \* per service: local error_count
    saved,             \* the _save_raw_data call that returns in this step (NoSave: none)
    ret,               \* the value a service call returns in this step (NoRet: none returns)
    lock,              \* per scraper: the page whose thread holds self.lock, 0 when free
    time_since_last_request, \* per scraper: time.time() - self.last_request_time,
                       \* counted up to request_interval
    sleep_left,        \* per scraper: what is left of the sleep of the lock holder
    job,               \* per scraper and page: where its _get_fund_rank_page call is
    cpc,               \* per scraper: position inside get_all_fund_rank_data
    max_pages,         \* per scraper: the max_pages argument
    src_total,         \* per scraper: the totalCount the source reports to this collection
    result,            \* per scraper: the local `result`, one entry per page appended
    requested,         \* per scraper and page: the number of requests sent for it
    grant_gap,         \* per scraper: at its last stamp of last_request_time, the
                       \* time since the stamp before
    since_dispatch,    \* per scraper: the time since its last request left
    dispatch_gap,      \* per scraper: when its last request left, the time since
                       \* the request before
    since_source_grant,\* the time since any scraper last stamped last_request_time
    source_gap,        \* at the last stamp, the time since the stamp before it by
                       \* any scraper of the source
    rank_ret,          \* per scraper: what update_fund_rank returned
    response,          \* the answer of the source to the last listing request made
                       \* by a _get_fund_rank_page call on its own
    page_ret,          \* what that _get_fund_rank_page call returned
    fund_basic,        \* table fund_basic: sequence of rows, position = id
    fund_growth,       \* table fund_growth: sequence of rows
    fpc,               \* per service: position inside import_fund_list or
                       \* update_fund_growth
    fund_list,         \* per service: the local `fund_list` of import_fund_list
    fund_index,        \* per service: the position of its loop in fund_list
    added_count,       \* per service: the local added_count
    rows_before,       \* per service: the number of fund_basic rows there were
                       \* when its import_fund_list call began
    growth_codes,      \* per service: the fund codes update_fund_growth has
                       \* still to handle
    growth_run,        \* per service: the locals success_count, failed_count,
                       \* total_count and current_date of update_fund_growth
    fund_ret,          \* what an import or growth call returns in this step
    last_request       \* the last request that left for the source: its kind,
                       \* and whether the method that sent it had a
                       \* _wait_for_request call return first

taskVars == <<scrape_task, scrape_task_item, raw_fund_data, pc, cur_task,
              raw_data_list, success_count, error_count, saved, ret>>

clockVars == <<time_since_last_request, sleep_left, grant_gap, since_dispatch,
               dispatch_gap, since_source_grant, source_gap>>

parseVars == <<response, page_ret>>

collectorVars == <<lock, job, cpc, max_pages, src_total, result, requested,
                   rank_ret, clockVars, parseVars>>

fundState == <<fund_basic, fund_growth, fpc, fund_list, fund_index, added_count,
               rows_before, growth_codes, growth_run, fund_ret>>

fundVars == <<fundState, last_request>>

vars == <<taskVars, collectorVars, fundVars>>

\* ------------------------------------------------------------ pure helpers

\* All sequences over S of length 0..n.
SeqsUpTo(S, n) == UNION {[1..k -> S] : k \in 0..n}

\* EastMoneyScraper.get_data_url: the URL as its parts.
get_data_url(fund_code, data_type) ==
    IF data_type = "fund_basic" THEN <<"base_url", "/", fund_code, ".html">>
    ELSE IF data_type = "fund_daily" THEN <<"api_url", "/fund/nav">>
    ELSE IF data_type = "fund_holdings"
         THEN <<"base_url", "/fund/f10/FundArchivesDatas.aspx?type=jjcc&code=", fund_code>>
    ELSE <<"base_url", "/", fund_code, ".html">>

\* The de-duplication key of a RawData record or a raw_fund_data row.
KeyOf(r) == <<r.fund_code, r.data_type, r.source, r.source_url>>

\* The texts the source can answer a fetch with.
Contents == {"c1", "c2"}

\* response.text of line 530 in the fetches of a task run: the source is taken
\* to answer them with one text.
response_text == "c1"

\* RawData built by fetch_data for one fetched fund code (lines 524-533).
RawData(fund_code, data_type, source, raw_content) ==
    [fund_code |-> fund_code, data_type |-> data_type, source |-> source,
     source_url |-> get_data_url(fund_code, data_type),
     raw_content |-> raw_content]

\* fetch_data: one request per fund code, a failed one is logged and dropped.
\* ok[i] tells whether the request for position i succeeded.
RECURSIVE fetch_data(_, _, _, _)
fetch_data(fund_code_list, data_type, source, ok) ==
    IF fund_code_list = <<>> THEN <<>>
    ELSE LET rest == fetch_data(Tail(fund_code_list), data_type, source, Tail(ok))
         IN IF Head(ok)
            THEN <<RawData(Head(fund_code_list), data_type, source, response_text)>>
                 \o rest
            ELSE rest

\* BaseScraper.post_process: keep the first record of every key.
RECURSIVE post_process_from(_, _)
post_process_from(raw, seen) ==
    IF raw = <<>> THEN <<>>
    ELSE IF KeyOf(Head(raw)) \in seen
         THEN post_process_from(Tail(raw), seen)
         ELSE <<Head(raw)>> \o post_process_from(Tail(raw), seen \cup {KeyOf(Head(raw))})

\* A post_process that keeps the last record of every key.
post_process_KeepsLast(raw) ==
    LET last == {i \in 1..Len(raw) :
                    \A j \in (i + 1)..Len(raw) : KeyOf(raw[j]) # KeyOf(raw[i])}
        nth(k) == CHOOSE i \in last : Cardinality({j \in last : j <= i}) = k
    IN [k \in 1..Cardinality(last) |-> raw[nth(k)]]

post_process(raw) == post_process_from(raw, {})

\* BaseScraper.run: pre_process -> fetch_data -> post_process.
scraper_run(fund_code_list, data_type, source, ok) ==
    post_process(fetch_data(fund_code_list, data_type, source, ok))

\* next((item for item in task_items if item.fund_code == code), None):
\* the position of the first item with that fund code, 0 when there is none.
FirstItemWith(items, code) ==
    IF \E i \in 1..Len(items) : items[i].fund_code = code
    THEN CHOOSE i \in 1..Len(items) :
            /\ items[i].fund_code = code
            /\ \A j \in 1..(i - 1) : items[j].fund_code # code
    ELSE 0

\* task_item.status = status; task_item.error_message = msg; commit.
MarkItem(items, code, status, msg) ==
    LET i == FirstItemWith(items, code)
    IN IF i = 0 THEN items
       ELSE [items EXCEPT ![i] = [@ EXCEPT !.status = status, !.error_message = msg]]

\* The row _save_raw_data builds from a RawData record.
RawFundData(raw_data) ==
    [fund_code |-> raw_data.fund_code, data_type |-> raw_data.data_type,
     source |-> raw_data.source, source_url |-> raw_data.source_url,
     raw_content |-> raw_data.raw_content, is_processed |-> FALSE]

\* The number of rows of raw_fund_data with the key k.
RowsWithKey(rows, k) ==
    LET matching == {r \in BagToSet(rows) : KeyOf(r) = k}
        RECURSIVE Sum(_)
        Sum(S) == IF S = {} THEN 0
                  ELSE LET r == CHOOSE x \in S : TRUE
                       IN CopiesIn(r, rows) + Sum(S \ {r})
    IN Sum(matching)

\* ceil(total / 50) as line 252 computes it.
PagesOf(total) == (total + 49) \div 50

Max(S) == CHOOSE x \in S : \A y \in S : y <= x

\* The page numbers a collection can ask for.
PageNumbers == 1..Max({1} \cup {PagesOf(t) : t \in TotalCounts})

\* ------------------------------------------------------------------- Init

Init ==
    /\ scrape_task = <<>>
    /\ scrape_task_item = <<>>
    /\ raw_fund_data = EmptyBag
    /\ pc = [s \in Services |-> "idle"]
    /\ cur_task = [s \in Services |-> 0]
    /\ raw_data_list = [s \in Services |-> <<>>]
    /\ success_count = [s \in Services |-> 0]
    /\ error_count = [s \in Services |-> 0]
    /\ saved = NoSave
    /\ ret = NoRet
    /\ lock = [c \in Scrapers |-> 0]
    /\ time_since_last_request = [c \in Scrapers |-> request_interval]
    /\ sleep_left = [c \in Scrapers |-> 0]
    /\ job = [c \in Scrapers |-> [p \in PageNumbers |-> "none"]]
    /\ cpc = [c \in Scrapers |-> "idle"]
    /\ max_pages = [c \in Scrapers |-> NoMaxPages]
    /\ src_total = [c \in Scrapers |-> 0]
    /\ result = [c \in Scrapers |-> <<>>]
    /\ requested = [c \in Scrapers |-> [p \in PageNumbers |-> 0]]
    /\ grant_gap = [c \in Scrapers |-> request_interval]
    /\ since_dispatch = [c \in Scrapers |-> request_interval]
    /\ dispatch_gap = [c \in Scrapers |-> request_interval]
    /\ since_source_grant = request_interval
    /\ source_gap = request_interval
    /\ rank_ret = [c \in Scrapers |-> [status |-> "none"]]
    /\ response = TransportFailure
    /\ page_ret = NoPageRet
    /\ fund_basic = <<>>
    /\ fund_growth = <<>>
    /\ fpc = [s \in Services |-> "idle"]
    /\ fund_list = [s \in Services |-> <<>>]
    /\ fund_index = [s \in Services |-> 1]
    /\ added_count = [s \in Services |-> 0]
    /\ rows_before = [s \in Services |-> 0]
    /\ growth_codes = [s \in Services |-> <<>>]
    /\ growth_run = [s \in Services |-> NoGrowthRun]
    /\ fund_ret = NoRet
    /\ last_request = NoRequest

\* ------------------------------------------------- create_scrape_task

\* The fund codes of a list without repetitions, in the order of the list.
RECURSIVE Distinct(_)
Distinct(list) ==
    IF list = <<>> THEN <<>>
    ELSE IF \E i \in 1..(Len(list) - 1) : list[i] = list[Len(list)]
         THEN Distinct(SubSeq(list, 1, Len(list) - 1))
         ELSE Append(Distinct(SubSeq(list, 1, Len(list) - 1)), list[Len(list)])

\* A task whose items are made from the distinct fund codes only.
create_scrape_task_Distinct(s, source, data_type, fund_code_list) ==
    /\ UNCHANGED <<collectorVars, fundVars>>
    /\ pc[s] = "idle"
    /\ Len(scrape_task) < MaxTasks
    /\ scrape_task' = Append(scrape_task,
          [source |-> source, data_type |-> data_type, status |-> "pending",
           total_count |-> Len(fund_code_list), success_count |-> 0,
           error_count |-> 0, start_time |-> None, end_time |-> None,
           error_message |-> None])
    /\ scrape_task_item' = Append(scrape_task_item,
          [i \in 1..Len(Distinct(fund_code_list)) |->
              [fund_code |-> Distinct(fund_code_list)[i], status |-> "pending",
               error_message |-> None]])
    /\ ret' = [svc |-> s, op |-> "create", task_id |-> Len(scrape_task) + 1]
    /\ saved' = NoSave
    /\ UNCHANGED <<raw_fund_data, pc, cur_task, raw_data_list, success_count,
                   error_count>>

create_scrape_task(s, source, data_type, fund_code_list) ==
    /\ UNCHANGED <<collectorVars, fundVars>>
    /\ pc[s] = "idle"
    /\ Len(scrape_task) < MaxTasks
    /\ scrape_task' = Append(scrape_task,
          [source |-> source, data_type |-> data_type, status |-> "pending",
           total_count |-> Len(fund_code_list), success_count |-> 0,
           error_count |-> 0, start_time |-> None, end_time |-> None,
           error_message |-> None])
    /\ scrape_task_item' = Append(scrape_task_item,
          [i \in 1..Len(fund_code_list) |->
              [fund_code |-> fund_code_list[i], status |-> "pending",
               error_message |-> None]])
    /\ ret' = [svc |-> s, op |-> "create", task_id |-> Len(scrape_task) + 1]
    /\ saved' = NoSave
    /\ UNCHANGED <<raw_fund_data, pc, cur_task, raw_data_list, success_count,
                   error_count>>

\* ------------------------------------------------------ run_scrape_task

Items(s) == scrape_task_item[cur_task[s]]
FundCodeList(s) == [i \in 1..Len(Items(s)) |-> Items(s)[i].fund_code]

\* run_scrape_task returns: its locals are gone.
Return(s) ==
    /\ pc' = [pc EXCEPT ![s] = "idle"]
    /\ cur_task' = [cur_task EXCEPT ![s] = 0]
    /\ raw_data_list' = [raw_data_list EXCEPT ![s] = <<>>]
    /\ success_count' = [success_count EXCEPT ![s] = 0]
    /\ error_count' = [error_count EXCEPT ![s] = 0]
    /\ saved' = NoSave

\* Lines 554-567: look the task up, mark it running, load its items. An unknown
\* task id returns an error and changes nothing.
RunBegin(s, task_id) ==
    /\ UNCHANGED <<collectorVars, fundVars>>
    /\ pc[s] = "idle"
    /\ IF task_id > Len(scrape_task)
       THEN /\ ret' = [svc |-> s, op |-> "run", status |-> "error",
                            message |-> "task_not_found"]
            /\ UNCHANGED <<scrape_task, pc, cur_task>>
       ELSE /\ scrape_task' = [scrape_task EXCEPT ![task_id] =
                                  [@ EXCEPT !.status = "running", !.start_time = "set"]]
            /\ cur_task' = [cur_task EXCEPT ![s] = task_id]
            /\ pc' = [pc EXCEPT ![s] = "started"]
            /\ ret' = NoRet
    /\ saved' = NoSave
    /\ UNCHANGED <<scrape_task_item, raw_fund_data, raw_data_list, success_count,
                   error_count>>

\* No scraper: the error is returned and the task is left as it is.
RunNoScraper_TaskLeft(s) ==
    /\ UNCHANGED <<collectorVars, fundVars>>
    /\ pc[s] = "started"
    /\ scrape_task[cur_task[s]].source \notin RegisteredScrapers
    /\ ret' = [svc |-> s, op |-> "run", status |-> "error",
               message |-> "no_scraper"]
    /\ Return(s)
    /\ UNCHANGED <<scrape_task, scrape_task_item, raw_fund_data>>

\* Lines 569-577: no scraper registered for the task's source.
RunNoScraper(s) ==
    /\ UNCHANGED <<collectorVars, fundVars>>
    /\ pc[s] = "started"
    /\ scrape_task[cur_task[s]].source \notin RegisteredScrapers
    /\ scrape_task' = [scrape_task EXCEPT ![cur_task[s]] =
                          [@ EXCEPT !.status = "failed", !.end_time = "set",
                                    !.error_message = "no_scraper"]]
    /\ ret' = [svc |-> s, op |-> "run", status |-> "error",
               message |-> "no_scraper"]
    /\ Return(s)
    /\ UNCHANGED <<scrape_task_item, raw_fund_data>>

\* Lines 579-588: scraper.run() over the task's fund codes; every request
\* succeeds or fails on its own.
RunFetch(s) ==
    /\ UNCHANGED <<collectorVars, fundState>>
    /\ pc[s] = "started"
    /\ scrape_task[cur_task[s]].source \in RegisteredScrapers
    /\ last_request' = IF Items(s) = <<>> THEN last_request
                       ELSE [kind |-> "raw_fetch", waited |-> FALSE]
    /\ \E ok \in [1..Len(Items(s)) -> BOOLEAN] :
          raw_data_list' = [raw_data_list EXCEPT ![s] =
              scraper_run(FundCodeList(s), scrape_task[cur_task[s]].data_type,
                          scrape_task[cur_task[s]].source, ok)]
    /\ success_count' = [success_count EXCEPT ![s] = 0]
    /\ error_count' = [error_count EXCEPT ![s] = 0]
    /\ pc' = [pc EXCEPT ![s] = "loop"]
    /\ ret' = NoRet
    /\ saved' = NoSave
    /\ UNCHANGED <<scrape_task, scrape_task_item, raw_fund_data, cur_task>>

\* _save_raw_data without its existence check: every call goes on to insert.
SaveRawDataCheck_NoDedup(s) ==
    /\ UNCHANGED <<collectorVars, fundVars>>
    /\ pc[s] = "loop"
    /\ raw_data_list[s] # <<>>
    /\ pc' = [pc EXCEPT ![s] = "insert"]
    /\ saved' = NoSave
    /\ ret' = NoRet
    /\ UNCHANGED <<scrape_task, scrape_task_item, raw_fund_data, cur_task,
                   raw_data_list, success_count, error_count>>

\* _save_raw_data writing the new content into the row it finds.
SaveRawDataCheck_Upsert(s) ==
    /\ UNCHANGED <<collectorVars, fundVars>>
    /\ pc[s] = "loop"
    /\ raw_data_list[s] # <<>>
    /\ IF RowsWithKey(raw_fund_data, KeyOf(Head(raw_data_list[s]))) > 0
       THEN /\ pc' = [pc EXCEPT ![s] = "saved"]
            /\ saved' = [svc |-> s, key |-> KeyOf(Head(raw_data_list[s])),
                         wrote |-> FALSE, value |-> None]
            /\ raw_fund_data' = SetToBag(
                  {IF KeyOf(r) = KeyOf(Head(raw_data_list[s]))
                   THEN RawFundData(Head(raw_data_list[s])) ELSE r :
                      r \in BagToSet(raw_fund_data)})
       ELSE /\ pc' = [pc EXCEPT ![s] = "insert"]
            /\ saved' = NoSave
            /\ UNCHANGED raw_fund_data
    /\ ret' = NoRet
    /\ UNCHANGED <<scrape_task, scrape_task_item, cur_task,
                   raw_data_list, success_count, error_count>>

\* _save_raw_data lines 647-657: the existence check. A row with the key
\* exists: return (None) without writing. None exists: go on to the insert.
SaveRawDataCheck(s) ==
    /\ UNCHANGED <<collectorVars, fundVars>>
    /\ pc[s] = "loop"
    /\ raw_data_list[s] # <<>>
    /\ IF RowsWithKey(raw_fund_data, KeyOf(Head(raw_data_list[s]))) > 0
       THEN /\ pc' = [pc EXCEPT ![s] = "saved"]
            /\ saved' = [svc |-> s, key |-> KeyOf(Head(raw_data_list[s])),
                         wrote |-> FALSE, value |-> None]
       ELSE /\ pc' = [pc EXCEPT ![s] = "insert"]
            /\ saved' = NoSave
    /\ ret' = NoRet
    /\ UNCHANGED <<scrape_task, scrape_task_item, raw_fund_data, cur_task,
                   raw_data_list, success_count, error_count>>

\* _save_raw_data lines 659-672: add the row, commit, return (None).
SaveRawDataInsert(s) ==
    /\ UNCHANGED <<collectorVars, fundVars>>
    /\ pc[s] = "insert"
    /\ raw_fund_data' = raw_fund_data (+) SetToBag({RawFundData(Head(raw_data_list[s]))})
    /\ pc' = [pc EXCEPT ![s] = "saved"]
    /\ saved' = [svc |-> s, key |-> KeyOf(Head(raw_data_list[s])),
                 wrote |-> TRUE, value |-> None]
    /\ ret' = NoRet
    /\ UNCHANGED <<scrape_task, scrape_task_item, cur_task, raw_data_list,
                   success_count, error_count>>

\* Lines 594-600 after _save_raw_data returned: count the record, mark its
\* item success and commit. When that commit raises, lines 602-611 run: the
\* record, already counted as a success, is counted as an error too and its
\* item is marked failed.
ItemSaved(s, commit_ok) ==
    /\ UNCHANGED <<collectorVars, fundVars>>
    /\ pc[s] = "saved"
    /\ cur_task[s] # 0
    /\ success_count' = [success_count EXCEPT ![s] = @ + 1]
    /\ error_count' = [error_count EXCEPT ![s] = IF commit_ok THEN @ ELSE @ + 1]
    /\ scrape_task_item' = [scrape_task_item EXCEPT ![cur_task[s]] =
          IF commit_ok
          THEN MarkItem(@, Head(raw_data_list[s]).fund_code, "success", None)
          ELSE MarkItem(@, Head(raw_data_list[s]).fund_code, "failed", "commit_error")]
    /\ raw_data_list' = [raw_data_list EXCEPT ![s] = Tail(@)]
    /\ pc' = [pc EXCEPT ![s] = "loop"]
    /\ ret' = NoRet
    /\ saved' = NoSave
    /\ UNCHANGED <<scrape_task, raw_fund_data, cur_task>>

\* _save_raw_data raises (the query or its commit fails): lines 602-611, the
\* item is marked failed with the error text.
SaveRawDataRaises(s) ==
    /\ UNCHANGED <<collectorVars, fundVars>>
    /\ pc[s] \in {"loop", "insert"}
    /\ cur_task[s] # 0
    /\ raw_data_list[s] # <<>>
    /\ error_count' = [error_count EXCEPT ![s] = @ + 1]
    /\ scrape_task_item' = [scrape_task_item EXCEPT ![cur_task[s]] =
          MarkItem(@, Head(raw_data_list[s]).fund_code, "failed", "store_error")]
    /\ raw_data_list' = [raw_data_list EXCEPT ![s] = Tail(@)]
    /\ pc' = [pc EXCEPT ![s] = "loop"]
    /\ ret' = NoRet
    /\ saved' = NoSave
    /\ UNCHANGED <<scrape_task, raw_fund_data, cur_task, success_count>>

\* _save_raw_data raises and the commit of line 611 raises too: the exception
\* leaves the per-item handler, lines 628-639. The failed commit is rolled
\* back, so the item keeps its stored status.
HandlerRaises(s) ==
    /\ UNCHANGED <<collectorVars, fundVars>>
    /\ pc[s] \in {"loop", "insert"}
    /\ cur_task[s] # 0
    /\ raw_data_list[s] # <<>>
    /\ scrape_task' = [scrape_task EXCEPT ![cur_task[s]] =
                          [@ EXCEPT !.status = "failed", !.end_time = "set",
                                    !.error_message = "commit_error"]]
    /\ ret' = [svc |-> s, op |-> "run", status |-> "error",
               success_count |-> 0, error_count |-> Len(Items(s))]
    /\ Return(s)
    /\ UNCHANGED <<scrape_task_item, raw_fund_data>>

\* Lines 613-626 returning the counts without setting the task completed.
RunComplete_TaskLeft(s) ==
    /\ UNCHANGED <<collectorVars, fundVars>>
    /\ pc[s] = "loop"
    /\ cur_task[s] # 0
    /\ raw_data_list[s] = <<>>
    /\ ret' = [svc |-> s, op |-> "run", status |-> "success",
               success_count |-> success_count[s],
               error_count |-> error_count[s]]
    /\ Return(s)
    /\ UNCHANGED <<scrape_task, scrape_task_item, raw_fund_data>>

\* Lines 613-626: every fetched record was handled.
RunComplete(s) ==
    /\ UNCHANGED <<collectorVars, fundVars>>
    /\ pc[s] = "loop"
    /\ cur_task[s] # 0
    /\ raw_data_list[s] = <<>>
    /\ scrape_task' = [scrape_task EXCEPT ![cur_task[s]] =
                          [@ EXCEPT !.status = "completed", !.end_time = "set",
                                    !.success_count = success_count[s],
                                    !.error_count = error_count[s]]]
    /\ ret' = [svc |-> s, op |-> "run", status |-> "success",
               success_count |-> success_count[s],
               error_count |-> error_count[s]]
    /\ Return(s)
    /\ UNCHANGED <<scrape_task_item, raw_fund_data>>

\* The status read with its counts taken from the items of the task.
get_scrape_task_status_FromItems(s, task_id) ==
    /\ UNCHANGED <<collectorVars, fundVars>>
    /\ pc[s] = "idle"
    /\ ret' = IF task_id > Len(scrape_task)
              THEN [svc |-> s, op |-> "status", status |-> "error",
                    message |-> "task_not_found"]
              ELSE [svc |-> s, op |-> "status",
                    status |-> scrape_task[task_id].status,
                    success_count |-> Cardinality(
                        {i \in 1..Len(scrape_task_item[task_id]) :
                            scrape_task_item[task_id][i].status = "success"}),
                    error_count |-> Cardinality(
                        {i \in 1..Len(scrape_task_item[task_id]) :
                            scrape_task_item[task_id][i].status = "failed"})]
    /\ saved' = NoSave
    /\ UNCHANGED <<scrape_task, scrape_task_item, raw_fund_data, pc, cur_task,
                   raw_data_list, success_count, error_count>>

\* get_scrape_task_status: a read of the task and its items.
get_scrape_task_status(s, task_id) ==
    /\ UNCHANGED <<collectorVars, fundVars>>
    /\ pc[s] = "idle"
    /\ ret' = IF task_id > Len(scrape_task)
              THEN [svc |-> s, op |-> "status", status |-> "error",
                    message |-> "task_not_found"]
              ELSE [svc |-> s, op |-> "status",
                    status |-> scrape_task[task_id].status,
                    success_count |-> scrape_task[task_id].success_count,
                    error_count |-> scrape_task[task_id].error_count]
    /\ saved' = NoSave
    /\ UNCHANGED <<scrape_task, scrape_task_item, raw_fund_data, pc, cur_task,
                   raw_data_list, success_count, error_count>>

\* One step of the service instance s.
ServiceStep(s) ==
    \/ \E source \in DataSources, data_type \in DataTypes,
          fund_code_list \in SeqsUpTo(FundCodes, MaxKeys) :
          create_scrape_task(s, source, data_type, fund_code_list)
    \/ \E task_id \in 1..MaxTasks : RunBegin(s, task_id)
    \/ RunNoScraper(s)
    \/ RunFetch(s)
    \/ SaveRawDataCheck(s)
    \/ SaveRawDataInsert(s)
    \/ \E commit_ok \in BOOLEAN : ItemSaved(s, commit_ok)
    \/ SaveRawDataRaises(s)
    \/ HandlerRaises(s)
    \/ RunComplete(s)
    \/ \E task_id \in 1..MaxTasks : get_scrape_task_status(s, task_id)

\* Service instances running concurrently against the one database.
Next == \E s \in Services : ServiceStep(s)

Spec == Init /\ [][Next]_vars

\* One service instance, its calls one after the other.
NextSingle == ServiceStep(1)

SpecSingle == Init /\ [][NextSingle]_vars

\* _save_raw_data raises, the commit of line 611 raises and the commit of
\* line 633 in the handler of lines 628-639 raises as well (the database
\* stays unreachable): nothing catches it, the exception leaves
\* run_scrape_task and no write of the handler is stored.
HandlerCommitRaises(s) ==
    /\ UNCHANGED <<collectorVars, fundVars>>
    /\ pc[s] \in {"loop", "insert"}
    /\ cur_task[s] # 0
    /\ raw_data_list[s] # <<>>
    /\ ret' = [svc |-> s, op |-> "run", status |-> "raised"]
    /\ Return(s)
    /\ UNCHANGED <<scrape_task, scrape_task_item, raw_fund_data>>

\* One service instance against a database that can stay unreachable: the
\* commit of line 633, which SpecSingle takes to succeed, may raise.
NextOutage == ServiceStep(1) \/ HandlerCommitRaises(1)

SpecOutage == Init /\ [][NextOutage]_vars

\* The steps of a run_scrape_task call that has begun.
RunProgress(s) ==
    \/ RunNoScraper(s)
    \/ RunFetch(s)
    \/ SaveRawDataCheck(s)
    \/ SaveRawDataInsert(s)
    \/ \E commit_ok \in BOOLEAN : ItemSaved(s, commit_ok)
    \/ SaveRawDataRaises(s)
    \/ HandlerRaises(s)
    \/ RunComplete(s)

\* One service instance whose fetch and store calls all return: a call that
\* has begun goes on to its next step.
SpecSingleFair == SpecSingle /\ WF_vars(RunProgress(1))

\* ------------------------------------- _save_raw_data called on its own

\* The records a scraper can hand to _save_raw_data.
StoreRecords ==
    UNION {{RawData(fund_code, data_type, "eastmoney", raw_content) :
                raw_content \in IF data_type \in DataTypes THEN Contents
                                ELSE {response_text}} :
            fund_code \in FundCodes, data_type \in AllDataTypes}

\* A caller enters _save_raw_data(raw_data), line 641.
StoreCall(s, raw_data) ==
    /\ UNCHANGED <<collectorVars, fundVars>>
    /\ pc[s] = "idle"
    /\ raw_data_list' = [raw_data_list EXCEPT ![s] = <<raw_data>>]
    /\ cur_task' = [cur_task EXCEPT ![s] = 0]
    /\ pc' = [pc EXCEPT ![s] = "loop"]
    /\ ret' = NoRet
    /\ saved' = NoSave
    /\ UNCHANGED <<scrape_task, scrape_task_item, raw_fund_data, success_count,
                   error_count>>

\* _save_raw_data has returned to that caller (lines 657 and 672), or has
\* raised to it.
StoreReturn(s) ==
    /\ UNCHANGED <<collectorVars, fundVars>>
    /\ \/ pc[s] = "saved"
       \/ pc[s] \in {"loop", "insert"} /\ raw_data_list[s] # <<>>
    /\ cur_task[s] = 0
    /\ raw_data_list' = [raw_data_list EXCEPT ![s] = <<>>]
    /\ pc' = [pc EXCEPT ![s] = "idle"]
    /\ ret' = NoRet
    /\ saved' = NoSave
    /\ UNCHANGED <<scrape_task, scrape_task_item, raw_fund_data, cur_task,
                   success_count, error_count>>

\* One caller storing records one call after the other.
StoreStep(s) ==
    \/ \E raw_data \in StoreRecords : StoreCall(s, raw_data)
    \/ SaveRawDataCheck(s)
    \/ SaveRawDataInsert(s)
    \/ StoreReturn(s)

NextStore == StoreStep(1)

SpecStore == Init /\ [][NextStore]_vars

\* ------------------------------------- BaseScraper.post_process on its own

\* The longest list handed to post_process.
MaxPostLen == 4

\* The records fetch_data can build for one data type: two fund codes, each
\* with either text.
PostRecords ==
    {RawData(fund_code, "fund_basic", "eastmoney", raw_content) :
        fund_code \in FundCodes, raw_content \in Contents}

\* post_process(raw_data_list) is called and returns unique_data (line 114).
post_process_call(s, raw) ==
    /\ UNCHANGED <<collectorVars, fundVars>>
    /\ pc[s] = "idle"
    /\ ret' = [svc |-> s, op |-> "post_process", raw_data_list |-> raw,
               unique_data |-> post_process(raw)]
    /\ saved' = NoSave
    /\ UNCHANGED <<scrape_task, scrape_task_item, raw_fund_data, pc, cur_task,
                   raw_data_list, success_count, error_count>>

NextPost == \E raw \in SeqsUpTo(PostRecords, MaxPostLen) : post_process_call(1, raw)

SpecPost == Init /\ [][NextPost]_vars

\* --------------------------------------------- EastMoneyScraper: rate limiter

\* Time is counted in the unit of request_interval (seconds). A clock counts the
\* time since an event up to request_interval: the code compares the time since
\* the last request with request_interval only, and last_request_time = 0 of a
\* new scraper lies more than request_interval back.
Later(clock) == IF clock < request_interval THEN clock + 1 ELSE clock

\* The lock taken and no sleep, whatever the time since the last request.
WaitAcquire_NoSleep(c, p) ==
    /\ job[c][p] = "wait"
    /\ lock[c] = 0
    /\ lock' = [lock EXCEPT ![c] = p]
    /\ sleep_left' = [sleep_left EXCEPT ![c] = 0]
    /\ job' = [job EXCEPT ![c][p] = "locked"]
    /\ UNCHANGED <<time_since_last_request, grant_gap, since_dispatch, dispatch_gap,
                   since_source_grant, source_gap>>
    /\ UNCHANGED <<cpc, max_pages, src_total, result, requested, rank_ret>>
    /\ UNCHANGED <<taskVars, parseVars, fundVars>>

\* with self.lock: time_since_last_request = time.time() - last_request_time;
\* the thread of page p holds the lock and sleeps for what is missing to
\* request_interval (lines 30-34).
WaitAcquire(c, p) ==
    /\ job[c][p] = "wait"
    /\ lock[c] = 0
    /\ lock' = [lock EXCEPT ![c] = p]
    /\ sleep_left' = [sleep_left EXCEPT ![c] =
          IF time_since_last_request[c] < request_interval
          THEN request_interval - time_since_last_request[c]
          ELSE 0]
    /\ job' = [job EXCEPT ![c][p] = "locked"]
    /\ UNCHANGED <<time_since_last_request, grant_gap, since_dispatch, dispatch_gap,
                   since_source_grant, source_gap>>
    /\ UNCHANGED <<cpc, max_pages, src_total, result, requested, rank_ret>>
    /\ UNCHANGED <<taskVars, parseVars, fundVars>>

\* The limiter returning without the lock released.
WaitRelease_KeepsLock(c, p) ==
    /\ job[c][p] = "locked"
    /\ lock[c] = p
    /\ sleep_left[c] = 0
    /\ grant_gap' = [grant_gap EXCEPT ![c] = time_since_last_request[c]]
    /\ source_gap' = since_source_grant
    /\ time_since_last_request' = [time_since_last_request EXCEPT ![c] = 0]
    /\ since_source_grant' = 0
    /\ job' = [job EXCEPT ![c][p] = "granted"]
    /\ UNCHANGED <<lock, sleep_left, since_dispatch, dispatch_gap>>
    /\ UNCHANGED <<cpc, max_pages, src_total, result, requested, rank_ret>>
    /\ UNCHANGED <<taskVars, parseVars, fundVars>>

\* The sleep is over: self.last_request_time = time.time() and the lock is
\* released (line 35). time.sleep may return late, never early.
WaitRelease(c, p) ==
    /\ job[c][p] = "locked"
    /\ lock[c] = p
    /\ sleep_left[c] = 0
    /\ grant_gap' = [grant_gap EXCEPT ![c] = time_since_last_request[c]]
    /\ source_gap' = since_source_grant
    /\ time_since_last_request' = [time_since_last_request EXCEPT ![c] = 0]
    /\ since_source_grant' = 0
    /\ lock' = [lock EXCEPT ![c] = 0]
    /\ job' = [job EXCEPT ![c][p] = "granted"]
    /\ UNCHANGED <<sleep_left, since_dispatch, dispatch_gap>>
    /\ UNCHANGED <<cpc, max_pages, src_total, result, requested, rank_ret>>
    /\ UNCHANGED <<taskVars, parseVars, fundVars>>

\* One unit of time passes.
Tick ==
    /\ \/ \E c \in Scrapers : sleep_left[c] > 0
       \/ \E c \in Scrapers : time_since_last_request[c] < request_interval
       \/ \E c \in Scrapers : since_dispatch[c] < request_interval
       \/ since_source_grant < request_interval
    /\ time_since_last_request' = [c \in Scrapers |-> Later(time_since_last_request[c])]
    /\ since_dispatch' = [c \in Scrapers |-> Later(since_dispatch[c])]
    /\ since_source_grant' = Later(since_source_grant)
    /\ sleep_left' = [c \in Scrapers |-> IF sleep_left[c] > 0 THEN sleep_left[c] - 1 ELSE 0]
    /\ UNCHANGED <<grant_gap, dispatch_gap, source_gap>>
    /\ UNCHANGED <<lock, job, cpc, max_pages, src_total, result, requested, rank_ret>>
    /\ UNCHANGED <<taskVars, parseVars, fundVars>>

\* ------------------------------------- EastMoneyScraper._get_fund_rank_page

\* The page size a collection asks page 1 with (lines 234 and 243); the pages
\* of the pool use the default.
PageSizeOf(c, p) ==
    IF p = 1 /\ max_pages[c] = NoMaxPages THEN OversizedPageSize ELSE DefaultPageSize

\* The number of rows the source holds for a page of a listing of `total` rows.
RecordsOn(total, p, page_size) ==
    LET left == total - (p - 1) * page_size
    IN IF left <= 0 THEN 0 ELSE IF left < page_size THEN left ELSE page_size

\* requests.get(...) of lines 82-84: the request leaves.
SendRequest(c, p) ==
    /\ job[c][p] = "granted"
    /\ requested' = [requested EXCEPT ![c][p] = @ + 1]
    /\ dispatch_gap' = [dispatch_gap EXCEPT ![c] = since_dispatch[c]]
    /\ since_dispatch' = [since_dispatch EXCEPT ![c] = 0]
    /\ job' = [job EXCEPT ![c][p] = "sent"]
    /\ last_request' = [kind |-> "listing", waited |-> job[c][p] = "granted"]
    /\ UNCHANGED <<time_since_last_request, sleep_left, grant_gap,
                   since_source_grant, source_gap>>
    /\ UNCHANGED <<lock, cpc, max_pages, src_total, result, rank_ret>>
    /\ UNCHANGED <<taskVars, parseVars, fundState>>

\* Lines 85-213: the response is parsed and {"data": rows, "total": totalCount}
\* returned, or the request or the parse fails and {"data": [], "total": 0} is
\* returned.
PageReturns(c, p, ok) ==
    /\ job[c][p] = "sent"
    /\ job' = [job EXCEPT ![c][p] = IF ok THEN "ok" ELSE "failed"]
    /\ UNCHANGED <<lock, cpc, max_pages, src_total, result, requested, rank_ret,
                   clockVars>>
    /\ UNCHANGED <<taskVars, parseVars, fundVars>>

\* Whether the name `re` has a value when line 94 (re.search) reads it. The
\* `import re` of line 110 stands inside _get_fund_rank_page, which makes `re`
\* a local name of the whole function; no path from the function's entry to
\* line 94 assigns it, so line 94 raises UnboundLocalError in every call that
\* received a response. The module's own `import re` (line 6) is shadowed.
re_assigned == FALSE

\* What a finished _get_fund_rank_page call returned: the rows and the total
\* of lines 127-190 when the parse ran, {"data": [], "total": 0} of line 213
\* when the request failed (line 204) or the parse raised (line 209).
PageData(c, p) ==
    IF job[c][p] = "ok" /\ re_assigned
    THEN RecordsOn(src_total[c], p, PageSizeOf(c, p))
    ELSE 0

PageTotal(c, p) == IF job[c][p] = "ok" /\ re_assigned THEN src_total[c] ELSE 0

\* result.extend(data): the rows of a page, as one entry.
Extend(res, p, n) == IF n = 0 THEN res ELSE Append(res, [page |-> p, n |-> n])

\* ---------------------------------- EastMoneyScraper.get_all_fund_rank_data

\* Lines 251-258: the number of pages to collect.
TotalPages(mp, total) ==
    IF mp > PagesOf(total) THEN PagesOf(total) ELSE mp

\* update_fund_rank calls get_all_fund_rank_data(max_pages) (line 163), which
\* starts the request of page 1 in the calling thread (lines 234 and 243).
get_all_fund_rank_data(c, mp, total) ==
    /\ cpc[c] \in {"idle", "done"}
    /\ max_pages' = [max_pages EXCEPT ![c] = mp]
    /\ src_total' = [src_total EXCEPT ![c] = total]
    /\ result' = [result EXCEPT ![c] = <<>>]
    /\ job' = [job EXCEPT ![c] = [p \in PageNumbers |-> IF p = 1 THEN "wait" ELSE "none"]]
    /\ cpc' = [cpc EXCEPT ![c] = "first"]
    /\ requested' = [requested EXCEPT ![c] = [p \in PageNumbers |-> 0]]
    /\ UNCHANGED <<lock, rank_ret, clockVars>>
    /\ UNCHANGED <<taskVars, parseVars, fundVars>>

\* Page 1 has returned. Lines 235-237: max_pages is None, its rows are the
\* result. Lines 244-273: total == 0 returns at once; otherwise the pages
\* 2..total_pages are submitted to the pool.
FirstPageDone(c) ==
    /\ cpc[c] = "first"
    /\ job[c][1] \in {"ok", "failed"}
    /\ result' = [result EXCEPT ![c] = Extend(@, 1, PageData(c, 1))]
    /\ IF \/ max_pages[c] = NoMaxPages
          \/ PageTotal(c, 1) = 0
          \/ TotalPages(max_pages[c], PageTotal(c, 1)) <= 1
       THEN /\ cpc' = [cpc EXCEPT ![c] = "returned"]
            /\ job' = job
       ELSE /\ cpc' = [cpc EXCEPT ![c] = "pool"]
            /\ job' = [job EXCEPT ![c] = [p \in PageNumbers |->
                  IF p \in 2..TotalPages(max_pages[c], PageTotal(c, 1))
                  THEN "queued" ELSE @[p]]]
    /\ UNCHANGED <<lock, max_pages, src_total, requested, rank_ret, clockVars>>
    /\ UNCHANGED <<taskVars, parseVars, fundVars>>

\* The calls of the pool that have started and not yet returned.
Running(c) == {p \in PageNumbers : job[c][p] \in {"wait", "locked", "granted", "sent"}}

\* A free thread of ThreadPoolExecutor(max_workers) starts a submitted call.
PoolStart(c, p) ==
    /\ cpc[c] = "pool"
    /\ job[c][p] = "queued"
    /\ Cardinality(Running(c)) < max_workers
    /\ job' = [job EXCEPT ![c][p] = "wait"]
    /\ UNCHANGED <<lock, cpc, max_pages, src_total, result, requested, rank_ret,
                   clockVars>>
    /\ UNCHANGED <<taskVars, parseVars, fundVars>>

\* Lines 276-285: as_completed yields a finished call, its rows are appended.
Collect(c, p) ==
    /\ cpc[c] = "pool"
    /\ job[c][p] \in {"ok", "failed"}
    /\ result' = [result EXCEPT ![c] = Extend(@, p, PageData(c, p))]
    /\ job' = [job EXCEPT ![c][p] = IF job[c][p] = "ok" THEN "collected_ok"
                                                        ELSE "collected_failed"]
    /\ UNCHANGED <<lock, cpc, max_pages, src_total, requested, rank_ret, clockVars>>
    /\ UNCHANGED <<taskVars, parseVars, fundVars>>

\* Every submitted call was collected: the pool shuts down, result is returned
\* (lines 289-290).
PoolDone(c) ==
    /\ cpc[c] = "pool"
    /\ \A p \in PageNumbers \ {1} :
          job[c][p] \in {"none", "collected_ok", "collected_failed"}
    /\ cpc' = [cpc EXCEPT ![c] = "returned"]
    /\ UNCHANGED <<lock, job, max_pages, src_total, result, requested, rank_ret,
                   clockVars>>
    /\ UNCHANGED <<taskVars, parseVars, fundVars>>

\* The number of rows in a result.
RECURSIVE Rows(_)
Rows(res) == IF res = <<>> THEN 0 ELSE Head(res).n + Rows(Tail(res))

\* update_fund_rank without the check of lines 165-167: an empty result is
\* stored like any other, zero rows of it.
RankDataFetched_EmptyIsSuccess(c) ==
    /\ cpc[c] = "returned"
    /\ rank_ret' = [rank_ret EXCEPT ![c] =
          [status |-> "success", total_count |-> Rows(result[c])]]
    /\ cpc' = [cpc EXCEPT ![c] = "done"]
    /\ UNCHANGED <<lock, job, max_pages, src_total, result, requested, clockVars>>
    /\ UNCHANGED <<taskVars, parseVars, fundVars>>

\* ScrapeService.update_fund_rank lines 162-172: an empty result is reported
\* as an error, any other result goes on to be stored.
RankDataFetched(c) ==
    /\ cpc[c] = "returned"
    /\ rank_ret' = [rank_ret EXCEPT ![c] =
          IF result[c] = <<>>
          THEN [status |-> "error"]
          ELSE [status |-> "success", total_count |-> Rows(result[c])]]
    /\ cpc' = [cpc EXCEPT ![c] = "done"]
    /\ UNCHANGED <<lock, job, max_pages, src_total, result, requested, clockVars>>
    /\ UNCHANGED <<taskVars, parseVars, fundVars>>

\* One step of the scraper c collecting a listing of one of `totals` rows.
\* PoolStart, Collect and PoolDone are no steps of it: FirstPageDone never
\* reaches the pool, page 1 returning total 0 in every call.
CollectorStep(c, maxes, totals) ==
    \/ \E mp \in maxes, total \in totals : get_all_fund_rank_data(c, mp, total)
    \/ \E p \in PageNumbers : WaitAcquire(c, p)
    \/ \E p \in PageNumbers : WaitRelease(c, p)
    \/ \E p \in PageNumbers : SendRequest(c, p)
    \/ \E p \in PageNumbers, ok \in BOOLEAN : PageReturns(c, p, ok)
    \/ FirstPageDone(c)
    \/ RankDataFetched(c)

\* One scraper collecting a listing.
NextCollector == Tick \/ CollectorStep(1, MaxPagesArgs, TotalCounts)

SpecCollector == Init /\ [][NextCollector]_vars

\* The steps of a get_all_fund_rank_data call that has begun: the limiter of
\* the thread that fetches a page, the request, its return, and the return
\* of the call.
CollectorProgress(c) ==
    \/ \E p \in PageNumbers : WaitAcquire(c, p)
    \/ \E p \in PageNumbers : WaitRelease(c, p)
    \/ \E p \in PageNumbers : SendRequest(c, p)
    \/ \E p \in PageNumbers, ok \in BOOLEAN : PageReturns(c, p, ok)
    \/ FirstPageDone(c)

\* One scraper collecting while time passes, the lock is granted to a thread
\* that asks for it when it is free, and every request returns (requests.get
\* has timeout=10).
SpecCollectorFair == SpecCollector /\ WF_vars(Tick) /\ WF_vars(CollectorProgress(1))

\* The scrapers of two ScrapeService instances collecting at the same time.
NextTwo == Tick \/ \E c \in Scrapers : CollectorStep(c, SmallMaxPagesArgs, SmallTotalCounts)

SpecTwo == Init /\ [][NextTwo]_vars

\* ===================================================================
\* Properties of the collection task orchestrator and the raw-data store
\* ===================================================================

\* ------------------------- EastMoneyScraper._get_fund_rank_page: the parse

\* str.rstrip("%"): the string without its trailing percent signs.
RECURSIVE rstrip_percent(_)
rstrip_percent(field) ==
    IF field # <<>> /\ field[Len(field)] = Percent
    THEN rstrip_percent(SubSeq(field, 1, Len(field) - 1))
    ELSE field

\* float(field) raises ValueError unless the string is one decimal number.
float_raises(field) == ~(Len(field) = 1 /\ field[1] = Number)

float(field) == [float |-> field[1]]

\* float(x) if x != "" else None, lines 139-148.
float_or_none(field) == IF field # <<>> THEN float(field) ELSE NoneValue

\* float(x.rstrip("%")) if x != "" else None, lines 149-168.
percent_or_none(field) ==
    IF field # <<>> THEN float(rstrip_percent(field)) ELSE NoneValue

\* Whether building the record of an accepted row raises.
row_raises(fund_fields) ==
    \/ \E i \in {5, 6} : fund_fields[i] # <<>> /\ float_raises(fund_fields[i])
    \/ \E i \in 7..Len(fund_fields) :
          /\ i <= 11
          /\ fund_fields[i] # <<>>
          /\ float_raises(rstrip_percent(fund_fields[i]))

\* The record lines 133-176 append for a row of at least MinFields fields.
rank_record(fund_fields) ==
    [fund_code |-> fund_fields[1], fund_name |-> fund_fields[2],
     short_name |-> fund_fields[3], nav_date |-> fund_fields[4],
     nav |-> float_or_none(fund_fields[5]),
     accum_nav |-> float_or_none(fund_fields[6]),
     daily_growth |-> percent_or_none(fund_fields[7]),
     weekly_growth |-> percent_or_none(fund_fields[8]),
     monthly_growth |-> percent_or_none(fund_fields[9]),
     quarterly_growth |-> percent_or_none(fund_fields[10]),
     yearly_growth |-> IF Len(fund_fields) > 10 /\ fund_fields[11] # <<>>
                       THEN float(rstrip_percent(fund_fields[11]))
                       ELSE NoneValue]

\* Lines 127-176: the rows of at least MinFields fields, as records; a shorter
\* row is passed over.
RECURSIVE parse_rows(_)
parse_rows(rows) ==
    IF rows = <<>> THEN <<>>
    ELSE IF Len(Head(rows)) >= MinFields
         THEN <<rank_record(Head(rows))>> \o parse_rows(Tail(rows))
         ELSE parse_rows(Tail(rows))

\* What _get_fund_rank_page returns for an answer of the source. Line 94 is
\* the first statement after the response arrived; it raises when `re` has no
\* value, and line 208 catches that.
get_fund_rank_page(resp) ==
    IF ~resp.ok THEN FailedPage                          \* lines 204-213
    ELSE IF ~re_assigned THEN FailedPage                 \* lines 94, 208-213
    ELSE IF resp.kind # "rank" THEN FailedPage           \* lines 98-100
    ELSE IF \E i \in 1..Len(resp.rows) :
               Len(resp.rows[i]) >= MinFields /\ row_raises(resp.rows[i])
         THEN FailedPage                                 \* lines 195-202
    ELSE [data |-> parse_rows(resp.rows),                \* lines 179-190
          total |-> IF resp.has_total THEN Len(resp.rows)
                    ELSE Len(parse_rows(resp.rows))]

\* A _get_fund_rank_page call on its own: the source answers, the call returns.
FetchRankPage(resp) ==
    /\ response' = resp
    /\ page_ret' = get_fund_rank_page(resp)
    /\ UNCHANGED <<lock, job, cpc, max_pages, src_total, result, requested,
                   rank_ret, clockVars>>
    /\ UNCHANGED <<taskVars, fundVars>>

NextParse == \E resp \in Responses : FetchRankPage(resp)

SpecParse == Init /\ [][NextParse]_vars

\* ------------------------------------- EastMoneyScraper.get_all_fund_data

\* One entry of the array `var r = [[...], ...]` of the fund list, with the
\* number of its fields; the fields after the code are told apart by the
\* version of the listing they come from.
FundArrayRows ==
    {[fund_code |-> fund_code, version |-> version, n |-> n] :
        fund_code \in FundCodes, version \in Versions,
        n \in {MinFundFields - 1, MinFundFields}}

\* What the source answers to the request of line 396: a transport failure, a
\* body without `var r = [...]`, a body whose array does not parse, or an array.
FundListResponses ==
    {[kind |-> kind, rows |-> <<>>] : kind \in {"failure", "no_array", "malformed"}}
    \cup {[kind |-> "array", rows |-> rows] : rows \in SeqsUpTo(FundArrayRows, MaxFunds)}

\* The answers with at most one entry.
SmallFundListResponses == {resp \in FundListResponses : Len(resp.rows) <= 1}

\* Lines 421-432: the structured entry of an array row.
FundEntry(row) ==
    [fund_code |-> row.fund_code, short_name |-> row.version,
     fund_name |-> row.version, fund_type |-> row.version, pinyin |-> row.version]

\* Lines 420-432: the rows of at least 5 fields, in the order of the array.
RECURSIVE fund_entries(_)
fund_entries(rows) ==
    IF rows = <<>> THEN <<>>
    ELSE IF Head(rows).n >= MinFundFields
         THEN <<FundEntry(Head(rows))>> \o fund_entries(Tail(rows))
         ELSE fund_entries(Tail(rows))

\* ast.literal_eval raises on the array (line 417): the except clause of line
\* 439 names ast.literal_eval.MalformedExpressionError, which does not exist,
\* so evaluating the clause raises AttributeError out of get_all_fund_data.
get_all_fund_data_raises(resp) == resp.kind = "malformed"

\* get_all_fund_data: [] after a transport failure (line 436) or without the
\* array (line 411), the structured entries otherwise.
get_all_fund_data(resp) ==
    IF resp.kind = "array" THEN fund_entries(resp.rows) ELSE <<>>

\* -------------------------------------- ScrapeService.import_fund_list

\* The fund_basic rows holding a fund code.
Existing(fund_code) ==
    {i \in DOMAIN fund_basic : fund_basic[i].fund_code = fund_code}

\* Lines 370-379: the row built from a listing entry.
FundBasic(fund_data) ==
    [fund_code |-> fund_data.fund_code, short_name |-> fund_data.short_name,
     fund_name |-> fund_data.fund_name, fund_type |-> fund_data.fund_type,
     pinyin |-> fund_data.pinyin]

\* import_fund_list or update_fund_growth returns: its locals are gone.
ReturnFund(s) ==
    /\ fpc' = [fpc EXCEPT ![s] = "idle"]
    /\ fund_list' = [fund_list EXCEPT ![s] = <<>>]
    /\ fund_index' = [fund_index EXCEPT ![s] = 1]
    /\ added_count' = [added_count EXCEPT ![s] = 0]
    /\ rows_before' = [rows_before EXCEPT ![s] = 0]
    /\ growth_codes' = [growth_codes EXCEPT ![s] = <<>>]
    /\ growth_run' = [growth_run EXCEPT ![s] = NoGrowthRun]

\* Lines 322-352: the scraper is looked up and the fund list fetched; the
\* request of get_all_fund_data leaves with no _wait_for_request before it.
import_fund_list(s, source, resp) ==
    /\ fpc[s] = "idle"
    /\ IF source \notin RegisteredScrapers
       THEN /\ fund_ret' = [svc |-> s, op |-> "import", status |-> "error",
                            message |-> "no_scraper"]
            /\ UNCHANGED <<last_request, fpc, fund_list, fund_index, added_count,
                           rows_before>>
       ELSE /\ last_request' = [kind |-> "fund_list", waited |-> FALSE]
            /\ IF get_all_fund_data_raises(resp)
               THEN /\ fund_ret' = [svc |-> s, op |-> "import", status |-> "raised"]
                    /\ UNCHANGED <<fpc, fund_list, fund_index, added_count,
                                   rows_before>>
               ELSE IF get_all_fund_data(resp) = <<>>
               THEN /\ fund_ret' = [svc |-> s, op |-> "import", status |-> "error",
                                    message |-> "fetch_failed"]
                    /\ UNCHANGED <<fpc, fund_list, fund_index, added_count,
                                   rows_before>>
               ELSE /\ fund_ret' = NoRet
                    /\ fpc' = [fpc EXCEPT ![s] = "import"]
                    /\ fund_list' = [fund_list EXCEPT ![s] = get_all_fund_data(resp)]
                    /\ fund_index' = [fund_index EXCEPT ![s] = 1]
                    /\ added_count' = [added_count EXCEPT ![s] = 0]
                    /\ rows_before' = [rows_before EXCEPT ![s] = Len(fund_basic)]
    /\ UNCHANGED <<fund_basic, fund_growth, growth_codes, growth_run>>
    /\ UNCHANGED <<taskVars, collectorVars>>

\* The check of a listing entry that overwrites the row of a fund it finds.
ImportCheck_Overwrite(s) ==
    /\ fpc[s] = "import"
    /\ fund_index[s] <= Len(fund_list[s])
    /\ LET fund_data == fund_list[s][fund_index[s]]
       IN IF Existing(fund_data.fund_code) # {}
          THEN /\ fund_basic' = [i \in DOMAIN fund_basic |->
                                    IF i \in Existing(fund_data.fund_code)
                                    THEN FundBasic(fund_data) ELSE fund_basic[i]]
               /\ fund_index' = [fund_index EXCEPT ![s] = @ + 1]
               /\ UNCHANGED fpc
          ELSE /\ fpc' = [fpc EXCEPT ![s] = "insert"]
               /\ UNCHANGED <<fund_basic, fund_index>>
    /\ fund_ret' = NoRet
    /\ UNCHANGED <<fund_growth, fund_list, added_count, rows_before,
                   growth_codes, growth_run, last_request>>
    /\ UNCHANGED <<taskVars, collectorVars>>

\* Lines 354-367: the fund of the entry is looked up; an entry whose fund
\* exists is skipped.
ImportCheck(s) ==
    /\ fpc[s] = "import"
    /\ fund_index[s] <= Len(fund_list[s])
    /\ IF Existing(fund_list[s][fund_index[s]].fund_code) # {}
       THEN /\ fund_index' = [fund_index EXCEPT ![s] = @ + 1]
            /\ UNCHANGED fpc
       ELSE /\ fpc' = [fpc EXCEPT ![s] = "insert"]
            /\ UNCHANGED fund_index
    /\ fund_ret' = NoRet
    /\ UNCHANGED <<fund_basic, fund_growth, fund_list, added_count, rows_before,
                   growth_codes, growth_run, last_request>>
    /\ UNCHANGED <<taskVars, collectorVars>>

\* The insert into a fund_basic table without the unique index on fund_code.
ImportInsert_NoUnique(s, commit_ok) ==
    /\ fpc[s] = "insert"
    /\ fund_basic' = IF commit_ok
                     THEN Append(fund_basic, FundBasic(fund_list[s][fund_index[s]]))
                     ELSE fund_basic
    /\ added_count' = [added_count EXCEPT ![s] = IF commit_ok THEN @ + 1 ELSE @]
    /\ fund_index' = [fund_index EXCEPT ![s] = @ + 1]
    /\ fpc' = [fpc EXCEPT ![s] = "import"]
    /\ fund_ret' = NoRet
    /\ UNCHANGED <<fund_growth, fund_list, rows_before, growth_codes, growth_run,
                   last_request>>
    /\ UNCHANGED <<taskVars, collectorVars>>

\* Lines 368-386: the new row is added and committed. The commit raises when
\* the database fails or when a row of the fund code was committed since the
\* check (fund_code is unique, models.py line 28); line 386 then rolls back
\* and the loop goes on.
ImportInsert(s, commit_ok) ==
    /\ fpc[s] = "insert"
    /\ LET fund_data == fund_list[s][fund_index[s]]
           stored == commit_ok /\ Existing(fund_data.fund_code) = {}
       IN /\ fund_basic' = IF stored THEN Append(fund_basic, FundBasic(fund_data))
                           ELSE fund_basic
          /\ added_count' = [added_count EXCEPT ![s] = IF stored THEN @ + 1 ELSE @]
    /\ fund_index' = [fund_index EXCEPT ![s] = @ + 1]
    /\ fpc' = [fpc EXCEPT ![s] = "import"]
    /\ fund_ret' = NoRet
    /\ UNCHANGED <<fund_growth, fund_list, rows_before, growth_codes, growth_run,
                   last_request>>
    /\ UNCHANGED <<taskVars, collectorVars>>

\* Lines 388-395: every entry was handled.
ImportReturn(s) ==
    /\ fpc[s] = "import"
    /\ fund_index[s] > Len(fund_list[s])
    /\ fund_ret' = [svc |-> s, op |-> "import", status |-> "success",
                    total_count |-> Len(fund_list[s]),
                    added_count |-> added_count[s], updated_count |-> 0]
    /\ ReturnFund(s)
    /\ UNCHANGED <<fund_basic, fund_growth, last_request>>
    /\ UNCHANGED <<taskVars, collectorVars>>

\* One step of an import_fund_list call of the service instance s, the source
\* answering with one of `responses`.
ImportStep(s, responses) ==
    \/ \E source \in DataSources, resp \in responses :
          import_fund_list(s, source, resp)
    \/ ImportCheck(s)
    \/ \E commit_ok \in BOOLEAN : ImportInsert(s, commit_ok)
    \/ ImportReturn(s)

\* Two service instances importing concurrently into the one database.
NextImport ==
    \/ ImportStep(1, FundListResponses)
    \/ ImportStep(2, SmallFundListResponses)

SpecImport == Init /\ [][NextImport]_vars

\* ------------------------------------- ScrapeService.update_fund_growth

\* The times of day datetime.now() can give.
Times == {"midnight", "daytime"}

\* get_fund_growth_data: [] after a failure, the growth of the page otherwise.
NoGrowthData == 0
GrowthValues == {1}

\* Line 84: update_date == current_date.date(). The column holds the
\* datetime the row was written at; it equals the date of the same day only
\* when that datetime is midnight.
EqualsDate(update_date) == update_date = "midnight"

\* The smallest element of a set of numbers: the row .first() returns.
Min(S) == CHOOSE x \in S : \A y \in S : x <= y

\* Lines 22-63: the scraper is looked up and the fund codes are settled.
update_fund_growth(s, source, fund_code_list, now) ==
    /\ fpc[s] = "idle"
    /\ LET codes == IF fund_code_list = <<>>
                    THEN [i \in DOMAIN fund_basic |-> fund_basic[i].fund_code]
                    ELSE fund_code_list
       IN IF source \notin RegisteredScrapers
          THEN /\ fund_ret' = [svc |-> s, op |-> "growth", status |-> "error",
                               message |-> "no_scraper"]
               /\ UNCHANGED <<fpc, growth_codes, growth_run>>
          ELSE IF codes = <<>>
          THEN /\ fund_ret' = [svc |-> s, op |-> "growth", status |-> "error",
                               message |-> "no_funds"]
               /\ UNCHANGED <<fpc, growth_codes, growth_run>>
          ELSE /\ fund_ret' = NoRet
               /\ fpc' = [fpc EXCEPT ![s] = "growth"]
               /\ growth_codes' = [growth_codes EXCEPT ![s] = codes]
               /\ growth_run' = [growth_run EXCEPT ![s] =
                     [success_count |-> 0, failed_count |-> 0,
                      total_count |-> Len(codes), current_date |-> now]]
    /\ UNCHANGED <<fund_basic, fund_growth, fund_list, fund_index, added_count,
                   rows_before, last_request>>
    /\ UNCHANGED <<taskVars, collectorVars>>

\* The loop passing over a fund code that has no fund_basic row without
\* counting it.
GrowthEntry_MissingFundUncounted(s, growth_data, commit_ok) ==
    /\ fpc[s] = "growth"
    /\ growth_codes[s] # <<>>
    /\ LET fund_code == Head(growth_codes[s])
           failed == [growth_run EXCEPT ![s].failed_count = @ + 1]
           succeeded == [growth_run EXCEPT ![s].success_count = @ + 1]
       IN IF Existing(fund_code) = {}
          THEN UNCHANGED <<growth_run, fund_growth, last_request>>
          ELSE /\ last_request' = [kind |-> "growth", waited |-> FALSE]
               /\ IF growth_data = NoGrowthData \/ ~commit_ok
                  THEN /\ growth_run' = failed
                       /\ UNCHANGED fund_growth
                  ELSE LET fund_id == Min(Existing(fund_code))
                           existing_growth ==
                               {j \in DOMAIN fund_growth :
                                   /\ fund_growth[j].fund_id = fund_id
                                   /\ EqualsDate(fund_growth[j].update_date)}
                       IN /\ growth_run' = succeeded
                          /\ IF existing_growth # {}
                             THEN fund_growth' =
                                    [fund_growth EXCEPT ![Min(existing_growth)] =
                                        [@ EXCEPT !.daily_growth = growth_data]]
                             ELSE /\ Len(fund_growth) < MaxGrowthRows
                                  /\ fund_growth' = Append(fund_growth,
                                        [fund_id |-> fund_id,
                                         update_date |-> growth_run[s].current_date,
                                         daily_growth |-> growth_data])
    /\ growth_codes' = [growth_codes EXCEPT ![s] = Tail(@)]
    /\ fund_ret' = NoRet
    /\ UNCHANGED <<fund_basic, fpc, fund_list, fund_index, added_count, rows_before>>
    /\ UNCHANGED <<taskVars, collectorVars>>

\* Lines 65-130: one fund code. The fund is looked up, its growth fetched
\* (the request of get_fund_growth_data, line 678, leaves with no
\* _wait_for_request before it), and the growth row of the day updated or
\* added; a failing commit is rolled back and counted as a failure.
GrowthEntry(s, growth_data, commit_ok) ==
    /\ fpc[s] = "growth"
    /\ growth_codes[s] # <<>>
    /\ LET fund_code == Head(growth_codes[s])
           failed == [growth_run EXCEPT ![s].failed_count = @ + 1]
           succeeded == [growth_run EXCEPT ![s].success_count = @ + 1]
       IN IF Existing(fund_code) = {}
          THEN /\ growth_run' = failed
               /\ UNCHANGED <<fund_growth, last_request>>
          ELSE /\ last_request' = [kind |-> "growth", waited |-> FALSE]
               /\ IF growth_data = NoGrowthData \/ ~commit_ok
                  THEN /\ growth_run' = failed
                       /\ UNCHANGED fund_growth
                  ELSE LET fund_id == Min(Existing(fund_code))
                           existing_growth ==
                               {j \in DOMAIN fund_growth :
                                   /\ fund_growth[j].fund_id = fund_id
                                   /\ EqualsDate(fund_growth[j].update_date)}
                       IN /\ growth_run' = succeeded
                          /\ IF existing_growth # {}
                             THEN fund_growth' =
                                    [fund_growth EXCEPT ![Min(existing_growth)] =
                                        [@ EXCEPT !.daily_growth = growth_data]]
                             ELSE /\ Len(fund_growth) < MaxGrowthRows
                                  /\ fund_growth' = Append(fund_growth,
                                        [fund_id |-> fund_id,
                                         update_date |-> growth_run[s].current_date,
                                         daily_growth |-> growth_data])
    /\ growth_codes' = [growth_codes EXCEPT ![s] = Tail(@)]
    /\ fund_ret' = NoRet
    /\ UNCHANGED <<fund_basic, fpc, fund_list, fund_index, added_count, rows_before>>
    /\ UNCHANGED <<taskVars, collectorVars>>

\* Lines 132-139: every fund code was handled.
GrowthReturn(s) ==
    /\ fpc[s] = "growth"
    /\ growth_codes[s] = <<>>
    /\ fund_ret' = [svc |-> s, op |-> "growth", status |-> "success",
                    total_count |-> growth_run[s].total_count,
                    success_count |-> growth_run[s].success_count,
                    failed_count |-> growth_run[s].failed_count]
    /\ ReturnFund(s)
    /\ UNCHANGED <<fund_basic, fund_growth, last_request>>
    /\ UNCHANGED <<taskVars, collectorVars>>

\* One step of an update_fund_growth call of the service instance s.
GrowthStep(s) ==
    \/ \E source \in DataSources, fund_code_list \in SeqsUpTo(FundCodes, 1),
          now \in Times : update_fund_growth(s, source, fund_code_list, now)
    \/ \E growth_data \in {NoGrowthData} \cup GrowthValues, commit_ok \in BOOLEAN :
          GrowthEntry(s, growth_data, commit_ok)
    \/ GrowthReturn(s)

\* One service instance in one server process: its import_fund_list,
\* update_fund_rank and update_fund_growth calls one after the other.
NextFund ==
    \/ cpc[1] \in {"idle", "done"} /\ ImportStep(1, SmallFundListResponses)
    \/ cpc[1] \in {"idle", "done"} /\ GrowthStep(1)
    \/ fpc[1] = "idle" /\ CollectorStep(1, {NoMaxPages}, {DefaultPageSize + 1})
    \/ Tick

SpecFund == Init /\ [][NextFund]_vars


TaskIds == 1..Len(scrape_task)

ItemsWithStatus(t, status) ==
    {i \in 1..Len(scrape_task_item[t]) : scrape_task_item[t][i].status = status}

\* C1: in every state where a task is completed, success_count + error_count
\* equals total_count. (Fails: a fund code whose request fails is dropped by
\* fetch_data and is counted neither as a success nor as an error.)
C1_CompletedCountsAddUp ==
    \A t \in TaskIds :
        scrape_task[t].status = "completed" =>
            scrape_task[t].success_count + scrape_task[t].error_count
                = scrape_task[t].total_count

\* C2: a completed task has no pending item; an item may be pending after a
\* run only when the task ended failed. (Fails: the item of a fund code whose
\* request failed stays pending in a completed task.)
C2_NoPendingWhenCompleted ==
    \A t \in TaskIds :
        scrape_task[t].status = "completed" => ItemsWithStatus(t, "pending") = {}

\* C3: when a run over several fund codes completes, the items of the codes
\* whose fetch or store failed are failed with an error text, error_count
\* counts exactly those items, and the other items are success. (Fails: a
\* failed fetch marks no item and increments no count.)
C3_FailedKeysEndFailed ==
    \A t \in TaskIds :
        scrape_task[t].status = "completed" =>
            /\ \A i \in 1..Len(scrape_task_item[t]) :
                  \/ scrape_task_item[t][i].status = "success"
                  \/ /\ scrape_task_item[t][i].status = "failed"
                     /\ scrape_task_item[t][i].error_message # None
            /\ scrape_task[t].error_count = Cardinality(ItemsWithStatus(t, "failed"))
            /\ scrape_task[t].success_count = Cardinality(ItemsWithStatus(t, "success"))

\* C4: a task's status only moves pending -> running -> completed or failed,
\* and once it is completed or failed its status and counts never change.
\* (Fails: run_scrape_task on a finished task sets it running again.)
C4_TerminalIsFinal ==
    [][\A t \in TaskIds :
          /\ <<scrape_task[t].status, scrape_task'[t].status>> \in
                {<<"pending", "pending">>, <<"pending", "running">>,
                 <<"running", "running">>, <<"running", "completed">>,
                 <<"running", "failed">>, <<"completed", "completed">>,
                 <<"failed", "failed">>}
          /\ scrape_task[t].status \in {"completed", "failed"} =>
                /\ scrape_task'[t].success_count = scrape_task[t].success_count
                /\ scrape_task'[t].error_count = scrape_task[t].error_count]_vars

C6_UniqueRawKeys ==
    \A r \in BagToSet(raw_fund_data) : RowsWithKey(raw_fund_data, KeyOf(r)) <= 1

C8_SourceGrantsSpaced ==
    source_gap >= request_interval

\* C9: when page 1 of a listing of totalCount > 0 rows was read and max_pages
\* is given, the pages requested are 1..min(max_pages, ceil(totalCount / 50)),
\* each once, and at most max_pages * 50 rows are returned; no page is ever
\* requested twice. (Fails: _get_fund_rank_page returns total 0 for every
\* response, so page 1 is the only page requested.)
C9_PagesRequestedOnce ==
    \A c \in Scrapers :
        /\ \A p \in PageNumbers : requested[c][p] <= 1
        /\ ( /\ cpc[c] \in {"returned", "done"}
             /\ max_pages[c] # NoMaxPages
             /\ job[c][1] = "ok"
             /\ src_total[c] > 0 ) =>
               LET ceil == CHOOSE n \in 1..src_total[c] :
                               /\ (n - 1) * DefaultPageSize < src_total[c]
                               /\ src_total[c] <= n * DefaultPageSize
                   last == IF max_pages[c] < ceil THEN max_pages[c] ELSE ceil
               IN /\ \A p \in PageNumbers :
                        requested[c][p] = IF p <= last THEN 1 ELSE 0
                  /\ Rows(result[c]) <= max_pages[c] * DefaultPageSize

\* C10: a first page with totalCount = 0 gives an empty result, and neither
\* the collector nor the rank update reports an error. (Fails: update_fund_rank
\* answers an empty result with status "error".)
C10_EmptyListingNoError ==
    \A c \in Scrapers :
        (cpc[c] = "done" /\ job[c][1] = "ok" /\ src_total[c] = 0) =>
            /\ result[c] = <<>>
            /\ rank_ret[c].status # "error"

\* C11: when a paged collection has returned after reading page 1, its result
\* holds the rows of page 1 and of every page whose fetch succeeded, each page
\* once, and no row of a failed page; and every page up to the last one was
\* fetched, whichever pages failed. (Fails: the rows of a page that was
\* fetched are never in the result, _get_fund_rank_page returning no rows for
\* every response.)
C11_SucceededPagesInResult ==
    \A c \in Scrapers :
        ( /\ cpc[c] \in {"returned", "done"}
          /\ max_pages[c] # NoMaxPages
          /\ job[c][1] = "ok"
          /\ src_total[c] > 0 ) =>
            LET fetched(p) == job[c][p] \in {"ok", "collected_ok"}
                entries(p) == {i \in DOMAIN result[c] : result[c][i].page = p}
                rows(p) == RecordsOn(src_total[c], p, DefaultPageSize)
                ceil == CHOOSE n \in 1..src_total[c] :
                            /\ (n - 1) * DefaultPageSize < src_total[c]
                            /\ src_total[c] <= n * DefaultPageSize
                last == IF max_pages[c] < ceil THEN max_pages[c] ELSE ceil
            IN /\ \A p \in PageNumbers :
                     IF fetched(p) /\ rows(p) > 0
                     THEN /\ Cardinality(entries(p)) = 1
                          /\ \A i \in entries(p) : result[c][i].n = rows(p)
                     ELSE entries(p) = {}
               /\ \A p \in 2..last :
                     job[c][p] \in {"collected_ok", "collected_failed"}

\* C12: a run that is handling its fetched records returns only when none is
\* left, and then the task is completed: a failure while storing one record
\* does not end the run. (Fails: after _save_raw_data raised, the commit of
\* the exception handler raises too and the run ends with the task failed.)
C12_StoreFailureNeverAborts ==
    [][\A s \in Services :
          ( /\ cur_task[s] # 0
            /\ pc[s] \in {"loop", "insert", "saved"}
            /\ pc'[s] = "idle" ) =>
              /\ raw_data_list[s] = <<>>
              /\ scrape_task'[cur_task[s]].status = "completed"]_vars

\* C13: a run of a task whose source has no scraper marks the task running
\* with start_time, then failed with end_time and an error_message, returns
\* an error, fetches nothing, and leaves the items pending and raw_fund_data
\* as it was.
C13_NoScraperFailsTask ==
    /\ [](\A t \in TaskIds :
            scrape_task[t].source \notin RegisteredScrapers =>
                /\ scrape_task[t].status \in {"pending", "running", "failed"}
                /\ scrape_task[t].status = "running" =>
                       scrape_task[t].start_time # None
                /\ scrape_task[t].status = "failed" =>
                       /\ scrape_task[t].start_time # None
                       /\ scrape_task[t].end_time # None
                       /\ scrape_task[t].error_message # None
                /\ ItemsWithStatus(t, "pending") = 1..Len(scrape_task_item[t]))
    /\ [][\A s \in Services :
            ( /\ pc[s] = "started"
              /\ scrape_task[cur_task[s]].source \notin RegisteredScrapers
              /\ pc'[s] # "started" ) =>
                /\ pc'[s] = "idle"
                /\ scrape_task[cur_task[s]].status = "running"
                /\ scrape_task'[cur_task[s]].status = "failed"
                /\ ret'.svc = s /\ ret'.op = "run" /\ ret'.status = "error"
                /\ raw_data_list'[s] = <<>>
                /\ raw_fund_data' = raw_fund_data
                /\ scrape_task_item' = scrape_task_item]_vars

\* A run of a task with two items and no scraper has returned its error.
C13_NoScraperRunReturned ==
    /\ ret.svc # 0
    /\ ret.op = "run"
    /\ ret.status = "error"
    /\ \E t \in TaskIds :
          /\ scrape_task[t].source \notin RegisteredScrapers
          /\ scrape_task[t].status = "failed"
          /\ Len(scrape_task_item[t]) = 2

\* C14: create_scrape_task adds one task, pending, total_count the number of
\* fund codes given, both counts 0, no start_time and no end_time, with one
\* pending item per fund code given, in their order; it fetches nothing and
\* writes no raw record.
C14_CreateMakesPendingTask ==
    [][\A s \in Services, source \in DataSources, data_type \in DataTypes,
          fund_code_list \in SeqsUpTo(FundCodes, MaxKeys) :
          create_scrape_task(s, source, data_type, fund_code_list) =>
              LET id == Len(scrape_task) + 1
              IN /\ Len(scrape_task') = id
                 /\ \A t \in TaskIds : scrape_task'[t] = scrape_task[t]
                 /\ scrape_task'[id].status = "pending"
                 /\ scrape_task'[id].total_count = Len(fund_code_list)
                 /\ scrape_task'[id].success_count = 0
                 /\ scrape_task'[id].error_count = 0
                 /\ scrape_task'[id].start_time = None
                 /\ scrape_task'[id].end_time = None
                 /\ Len(scrape_task_item') = id
                 /\ Len(scrape_task_item'[id]) = Len(fund_code_list)
                 /\ \A i \in 1..Len(fund_code_list) :
                       /\ scrape_task_item'[id][i].fund_code = fund_code_list[i]
                       /\ scrape_task_item'[id][i].status = "pending"
                 /\ raw_fund_data' = raw_fund_data
                 /\ raw_data_list' = raw_data_list
                 /\ pc'[s] = "idle"
                 /\ ret'.task_id = id]_vars

\* A task was created from a list that names one fund code twice.
C14_TaskOfRepeatedCode ==
    /\ ret.svc # 0
    /\ ret.op = "create"
    /\ scrape_task[ret.task_id].status = "pending"
    /\ Len(scrape_task_item[ret.task_id]) = 2
    /\ scrape_task_item[ret.task_id][1].fund_code
          = scrape_task_item[ret.task_id][2].fund_code

\* C15: a get_scrape_task_status call changes no task, no item and no raw
\* record, whatever a run of another service instance is doing, and the
\* status and counts it returns are those the task has at that moment.
C15_StatusIsPureRead ==
    [][(ret'.svc # 0 /\ ret'.op = "status" /\ ret' # ret) =>
          /\ scrape_task' = scrape_task
          /\ scrape_task_item' = scrape_task_item
          /\ raw_fund_data' = raw_fund_data
          /\ \/ ret'.status = "error" /\ Len(scrape_task) < MaxTasks
             \/ \E t \in TaskIds :
                   /\ ret'.status = scrape_task[t].status
                   /\ ret'.success_count = scrape_task[t].success_count
                   /\ ret'.error_count = scrape_task[t].error_count]_vars

\* The status of a running task was read while the run of the other service
\* instance had marked an item and not yet finished.
C15_StatusReadDuringRun ==
    /\ ret.svc # 0
    /\ ret.op = "status"
    /\ ret.status = "running"
    /\ \E s \in Services \ {ret.svc} :
          /\ pc[s] \in {"loop", "insert", "saved"}
          /\ cur_task[s] # 0
          /\ ItemsWithStatus(cur_task[s], "success") # {}

\* C16: of a listing page that was fetched, every row of at least MinFields
\* fields is returned as a record; its nav, accum_nav and growth are None
\* where the field is the empty string, and the number of the field, a
\* trailing '%' stripped, where it is not. (Fails: no row is returned,
\* _get_fund_rank_page raising at its first use of `re`.)
C16_EmptyFieldsParseToNone ==
    (page_ret # NoPageRet /\ response.ok /\ response.kind = "rank") =>
        LET accepted == SelectSeq(response.rows, LAMBDA row : Len(row) >= MinFields)
            number(field) ==
                IF field = <<>> THEN NoneValue ELSE [float |-> Number]
        IN /\ Len(page_ret.data) = Len(accepted)
           /\ \A i \in 1..Len(accepted) :
                 /\ page_ret.data[i].nav = number(accepted[i][5])
                 /\ page_ret.data[i].accum_nav = number(accepted[i][6])
                 /\ page_ret.data[i].daily_growth = number(accepted[i][7])
                 /\ page_ret.data[i].weekly_growth = number(accepted[i][8])
                 /\ page_ret.data[i].monthly_growth = number(accepted[i][9])
                 /\ page_ret.data[i].quarterly_growth = number(accepted[i][10])

\* C17: of a fetched listing page with a row of fewer than MinFields fields,
\* the rows of at least MinFields fields are all returned, and the page's
\* result counts the short rows as parse failures. (Fails: no row is
\* returned, and the result has the keys data and total only.)
C17_ShortRowsSkippedAndCounted ==
    ( /\ page_ret # NoPageRet
      /\ response.ok
      /\ response.kind = "rank"
      /\ \E i \in 1..Len(response.rows) : Len(response.rows[i]) < MinFields ) =>
        LET short == {i \in 1..Len(response.rows) : Len(response.rows[i]) < MinFields}
        IN /\ Len(page_ret.data) = Len(response.rows) - Cardinality(short)
           /\ "parse_failures" \in DOMAIN page_ret
           /\ page_ret.parse_failures = Cardinality(short)

\* C20: the result of a page fetch whose request failed differs from the
\* result of a fetch that was answered with a page of no rows. (Fails: both
\* return {"data": [], "total": 0}.)
C20_FailureDistinctFromEmpty ==
    ( /\ page_ret # NoPageRet
      /\ response.ok
      /\ response.kind = "rank"
      /\ response.rows = <<>> ) =>
        page_ret # get_fund_rank_page(TransportFailure)

AllListedBefore(s) ==
    \A k \in DOMAIN fund_list[s] :
        \E i \in 1..rows_before[s] :
            fund_basic[i].fund_code = fund_list[s][k].fund_code

\* C22: import_fund_list never modifies, removes or duplicates a fund_basic
\* row that exists: every row stays as it is, there is at most one row per
\* fund code, and an import over a listing whose fund codes were all stored
\* when it began (a second import of the same listing) adds zero rows.
C22_ImportKeepsExistingRows ==
    /\ [](\A i, j \in DOMAIN fund_basic :
            fund_basic[i].fund_code = fund_basic[j].fund_code => i = j)
    /\ [](\A s \in Services :
            (fpc[s] \in {"import", "insert"} /\ AllListedBefore(s)) =>
                added_count[s] = 0)
    /\ [][\A i \in DOMAIN fund_basic :
            i \in DOMAIN fund_basic' /\ fund_basic'[i] = fund_basic[i]]_vars

\* A second import has handled a listing of two funds that were both stored
\* before it began, one of them listed with other names than stored, and has
\* added nothing.
C22_SecondImportAddedNothing ==
    /\ fpc[1] = "import"
    /\ Len(fund_list[1]) = 2
    /\ fund_index[1] > Len(fund_list[1])
    /\ rows_before[1] = 2
    /\ AllListedBefore(1)
    /\ \E k \in DOMAIN fund_list[1], i \in DOMAIN fund_basic :
          /\ fund_basic[i].fund_code = fund_list[1][k].fund_code
          /\ fund_basic[i].short_name # fund_list[1][k].short_name
    /\ added_count[1] = 0
    /\ Len(fund_basic) = 2

C24_CountsWithinTotal ==
    /\ \A t \in TaskIds :
          scrape_task[t].success_count + scrape_task[t].error_count
              <= scrape_task[t].total_count
    /\ \A s \in Services :
          (pc[s] # "idle" /\ cur_task[s] # 0) =>
              success_count[s] + error_count[s] <= scrape_task[cur_task[s]].total_count

\* C25: when an exception leaves the per-item handler of run_scrape_task, the
\* call ends with the task failed, error_message set to the exception text
\* and end_time stamped, and no item changes: the items already marked keep
\* their status and the items of the records not yet handled stay as they
\* were (pending in a first run).
C25_EscapeFailsTaskKeepsItems ==
    [][\A s \in Services :
          ( /\ pc[s] \in {"loop", "insert"}
            /\ cur_task[s] # 0
            /\ raw_data_list[s] # <<>>
            /\ pc'[s] = "idle" ) =>
              /\ scrape_task'[cur_task[s]].status = "failed"
              /\ scrape_task'[cur_task[s]].error_message = "commit_error"
              /\ scrape_task'[cur_task[s]].end_time = "set"
              /\ scrape_task_item' = scrape_task_item
              /\ \A i \in DOMAIN Items(s) :
                    Items(s)[i].status = "pending" =>
                        scrape_task_item'[cur_task[s]][i].status = "pending"
              /\ ret'.op = "run"
              /\ ret'.status = "error"]_vars

\* ===================================================================
\* Properties of the source client's requests
\* ===================================================================

\* C26: every request that leaves for the source (listing page, full fund
\* list, per-entity raw fetch, per-entity growth fetch) is sent by a method
\* that had its own _wait_for_request call return first. (Fails: only
\* _get_fund_rank_page and get_fund_company_list call _wait_for_request.)
C26_RequestsWaited ==
    last_request.kind # "none" => last_request.waited

\* ===================================================================
\* Properties of the listing collector: failure of the first page
\* ===================================================================

\* C27: when the fetch of the first listing page fails, the collection ends
\* with no page 2..n requested or started and an empty result, and the rank
\* update that asked for it returns one result, of status error.
C27_FirstPageFailureAborts ==
    \A c \in Scrapers :
        (job[c][1] = "failed" /\ cpc[c] \in {"returned", "done"}) =>
            /\ result[c] = <<>>
            /\ \A p \in PageNumbers \ {1} :
                  requested[c][p] = 0 /\ job[c][p] = "none"
            /\ requested[c][1] = 1
            /\ cpc[c] = "done" => rank_ret[c] = [status |-> "error"]

\* A paged collection of a listing of 237 rows whose first page failed has
\* returned to update_fund_rank, which has returned.
C27_FirstPageFailedReturned ==
    /\ job[1][1] = "failed"
    /\ cpc[1] = "done"
    /\ max_pages[1] = MaxPagesArg
    /\ src_total[1] = 237

\* ===================================================================
\* Properties of the raw-data store: stored rows
\* ===================================================================

\* C31: once a raw_fund_data row exists, no step changes or removes it, and a
\* later store of its key with another content adds no row of that key: the
\* content stored for a key stays the one first captured.
C31_RawRowsNeverChange ==
    [][\A r \in BagToSet(raw_fund_data) :
          /\ CopiesIn(r, raw_fund_data') >= CopiesIn(r, raw_fund_data)
          /\ \A r2 \in BagToSet(raw_fund_data') :
                KeyOf(r2) = KeyOf(r) => r2.raw_content = r.raw_content]_vars

\* A record whose key is stored with another content was handed to
\* _save_raw_data, which has returned without writing.
C31_OtherContentSkipped ==
    /\ pc[1] = "saved"
    /\ saved.svc = 1
    /\ ~saved.wrote
    /\ \E r \in BagToSet(raw_fund_data) :
          /\ KeyOf(r) = KeyOf(Head(raw_data_list[1]))
          /\ r.raw_content # Head(raw_data_list[1]).raw_content

\* ===================================================================
\* Properties of the orchestrator's results
\* ===================================================================

\* C32: no exception leaves run_scrape_task, whatever fetches and per-item
\* stores fail: every call hands its caller a result of status success or
\* error. (Fails: the commit in the handler of lines 628-639 is not guarded.)
C32_CallerGetsValue ==
    ret.op = "run" => ret.status \in {"success", "error"}

\* ===================================================================
\* Properties of the counts of a finished task
\* ===================================================================

\* C33: in every terminal state of a task (completed or failed, after one or
\* several runs), the stored success_count equals the number of its items
\* with status success and the stored error_count equals the number of its
\* items with status failed. (Fails: the handler of lines 628-639 stores no
\* counts, so a failed task keeps the counts it had while its items are
\* marked.)
C33_TerminalCountsMatchItems ==
    \A t \in TaskIds :
        scrape_task[t].status \in {"completed", "failed"} =>
            /\ scrape_task[t].success_count
                   = Cardinality(ItemsWithStatus(t, "success"))
            /\ scrape_task[t].error_count
                   = Cardinality(ItemsWithStatus(t, "failed"))

\* C34: the success_count and error_count that run_scrape_task returns equal
\* the success_count and error_count stored on the task when the call
\* returns, on the completed path and on the failed path. (Fails: the failed
\* path returns error_count = len(fund_code_list) and stores no counts.)
C34_ReturnedCountsArePersisted ==
    [][\A s \in Services :
          ( /\ pc[s] # "idle"
            /\ cur_task[s] # 0
            /\ pc'[s] = "idle"
            /\ ret'.op = "run"
            /\ "success_count" \in DOMAIN ret' ) =>
              /\ ret'.success_count = scrape_task'[cur_task[s]].success_count
              /\ ret'.error_count = scrape_task'[cur_task[s]].error_count]_vars

\* ===================================================================
\* Properties of the listing page parser and of the update counts
\* ===================================================================

\* C36: of a fetched listing page with a row of at least MinFields fields
\* whose nav is not empty and not a number, that row alone is rejected: the
\* other rows of at least MinFields fields are returned as records and the
\* page's totalCount is reported. (Fails: the page gives no rows and total 0.)
C36_BadNumberRowRejectedAlone ==
    ( /\ page_ret # NoPageRet
      /\ response.ok
      /\ response.kind = "rank"
      /\ response.has_total
      /\ \E i \in 1..Len(response.rows) :
            Len(response.rows[i]) >= MinFields /\ row_raises(response.rows[i]) ) =>
        LET kept == SelectSeq(response.rows,
                              LAMBDA row : Len(row) >= MinFields /\ ~row_raises(row))
        IN /\ page_ret.data = parse_rows(kept)
           /\ page_ret.total = Len(response.rows)

C38_DuplicateItemsEndSuccess ==
    [][\A s \in Services :
          ( /\ pc[s] = "loop"
            /\ cur_task[s] # 0
            /\ raw_data_list[s] = <<>>
            /\ pc'[s] = "idle"
            /\ error_count[s] = 0
            /\ success_count[s] =
                   Cardinality({Items(s)[i].fund_code : i \in DOMAIN Items(s)})
            /\ \E i, j \in DOMAIN Items(s) :
                  i # j /\ Items(s)[i].fund_code = Items(s)[j].fund_code ) =>
              \A i, j \in DOMAIN Items(s) :
                  (i # j /\ Items(s)[i].fund_code = Items(s)[j].fund_code) =>
                      scrape_task_item'[cur_task[s]][i].status = "success"]_vars

\* ===================================================================
\* Termination of the listing collection
\* ===================================================================

C40_KeepsFirstOfEveryKey ==
    ret.op = "post_process" =>
        LET input == ret.raw_data_list
            unique_data == ret.unique_data
            first == {i \in 1..Len(input) :
                         \A j \in 1..(i - 1) : KeyOf(input[j]) # KeyOf(input[i])}
            nth(k) == CHOOSE i \in first : Cardinality({j \in first : j <= i}) = k
        IN /\ \A i, j \in 1..Len(unique_data) :
                 i # j => KeyOf(unique_data[i]) # KeyOf(unique_data[j])
           /\ Len(unique_data) = Cardinality(first)
           /\ \A k \in 1..Len(unique_data) : unique_data[k] = input[nth(k)]
           /\ post_process(unique_data) = unique_data

\* post_process has returned two records for a list of four in which both
\* keys come twice, each time with two texts.
C40_DuplicatesOfTwoKeysDropped ==
    /\ ret.op = "post_process"
    /\ Len(ret.raw_data_list) = 4
    /\ Len(ret.unique_data) = 2
    /\ ret.raw_data_list[1].fund_code = ret.raw_data_list[3].fund_code
    /\ ret.raw_data_list[1].raw_content # ret.raw_data_list[3].raw_content
    /\ ret.raw_data_list[2].fund_code = ret.raw_data_list[4].fund_code
    /\ ret.raw_data_list[2].raw_content # ret.raw_data_list[4].raw_content
    /\ ret.unique_data = <<ret.raw_data_list[1], ret.raw_data_list[2]>>

====
